---- MODULE Spec2Model ----
(***************************************************************************)
(* room-overview: the CT -> DB synchronisation loop, the sqlite store it   *)
(* writes, and the watch-channel shutdown shared by the sync loop, the     *)
(* signal handler and the web server.                                      *)
(*                                                                         *)
(* Time.  An instant (chrono::DateTime<Utc>) is a count of ticks; SubSec   *)
(* ticks make one second and DayLen seconds make one day.  The text the    *)
(* store keeps ("%Y-%m-%dT%H:%M:%S") has whole seconds only: it is         *)
(* modelled by the count of seconds, which orders exactly like the text    *)
(* does for four-digit years.                                              *)
(***************************************************************************)
EXTENDS Integers, Sequences, FiniteSets, TLC

\* ------------------------------------------------------------- bounds
\* ticks per second (sub-second resolution of an instant)
SubSec == 2
\* seconds per day: the first is 00:00:00, the last is 23:59:59
DayLen == 2
\* the clock runs over the days 1 .. MaxDay
MaxDay == 2
\* the longest response of the remote system, in entries
MaxRemote == 2

\* the booking ids the remote system uses
Ids == {1, 2}
\* resource ids of the remote system
Resources == {10}
Titles == {"t"}

\* ------------------------------------------------------------- time
\* the instant todayT00:00:00, in ticks
Midnight(d) == d * DayLen * SubSec
\* the second todayT00:00:00, as the store writes it
MidnightSec(d) == d * DayLen
\* the last second of a day, 23:59:59, relative to its midnight
LastSec == DayLen - 1

\* get_bookings_into_db: end = start + TimeDelta::days(1), the last date of
\* the fetch and of the local query
EndDate(start_date) == start_date + 1

\* format_with_items("%Y-%m-%dT%H:%M:%S") of an instant: the fraction of a
\* second is dropped
FormatTime(t) == t \div SubSec
\* NaiveDateTime::and_utc of a stored second
AndUtc(s) == s * SubSec

\* ------------------------------------------------------------- bookings
Booking(id, res, title, st, en) ==
    [booking_id |-> id, resource_id |-> res, title |-> title,
     start_time |-> st, end_time |-> en]

\* faulty variant: the stored text is read as a local time, off from UTC
interpret_as_local(row) ==
    Booking(row.booking_id, row.resource_id, row.title,
            AndUtc(row.start_time + 1), AndUtc(row.end_time + 1))

\* NaiveBooking::interpret_as_utc
interpret_as_utc(row) ==
    Booking(row.booking_id, row.resource_id, row.title,
            AndUtc(row.start_time), AndUtc(row.end_time))

\* the row an INSERT or UPDATE writes for a booking
RowOf(b) ==
    [booking_id |-> b.booking_id, resource_id |-> b.resource_id,
     title |-> b.title,
     start_time |-> FormatTime(b.start_time),
     end_time |-> FormatTime(b.end_time)]

Range(s) == {s[i] : i \in 1 .. Len(s)}

RECURSIVE SortById(_)
\* the rows of a set in the order of their primary key
SortById(rows) ==
    IF rows = {} THEN <<>>
    ELSE LET r == CHOOSE x \in rows : \A y \in rows : x.booking_id <= y.booking_id
         IN  <<r>> \o SortById(rows \ {r})

\* ------------------------------------------------------------- the store
\* The bookings table is a set of rows.  Every operation below is one SQL
\* statement; whether the engine itself fails (sqlx::Error from the pool,
\* the file, a lock) is the caller's choice.

\* booking_id is the table's primary key: an INSERT of a key that has a row
\* is refused
HasRow(st, id) == \E r \in st : r.booking_id = id

PrimaryKeyTaken(st, id) == HasRow(st, id)

\* db::get_bookings_in_timeframe: the rows that intersect [start, end]
get_bookings_in_timeframe(st, start, end) ==
    LET start_str == FormatTime(start)
        end_str   == FormatTime(end)
        hit       == {r \in st : r.start_time <= end_str /\ start_str <= r.end_time}
        rows      == SortById(hit)
    IN  [i \in 1 .. Len(rows) |-> interpret_as_utc(rows[i])]

\* faulty variant: INSERT OR REPLACE
insert_booking_or_replace(st, b) ==
    [ok |-> TRUE, store |-> {r \in st : r.booking_id # b.booking_id} \cup {RowOf(b)}]

\* db::insert_booking
insert_booking(st, b) ==
    IF PrimaryKeyTaken(st, b.booking_id)
    THEN [ok |-> FALSE, store |-> st]
    ELSE [ok |-> TRUE, store |-> st \cup {RowOf(b)}]

\* faulty variant: deleting a key that has no row is an error
delete_booking_strict(st, id) ==
    [ok |-> HasRow(st, id), store |-> {r \in st : r.booking_id # id}]

\* db::delete_booking: DELETE ... WHERE booking_id = ?
delete_booking(st, id) ==
    [ok |-> TRUE, store |-> {r \in st : r.booking_id # id}]

\* faulty variant: only the times of the row are replaced
update_booking_times_only(st, b) ==
    [ok |-> TRUE,
     store |-> {IF r.booking_id = b.booking_id
                THEN [r EXCEPT !.start_time = FormatTime(b.start_time),
                               !.end_time = FormatTime(b.end_time)]
                ELSE r : r \in st}]

\* db::update_booking: UPDATE ... SET ... WHERE booking_id = ?
update_booking(st, b) ==
    [ok |-> TRUE,
     store |-> {IF r.booking_id = b.booking_id THEN RowOf(b) ELSE r : r \in st}]

\* faulty variant: a booking that ends at 00:00:00 today is removed as well
prune_through_midnight(st, d) ==
    LET time_str == MidnightSec(d)
        old      == {r \in st : r.end_time <= time_str}
    IN  [store |-> st \ old, rows_affected |-> Cardinality(old)]

\* db::prune_old_bookings on day d: DELETE ... where end_time < todayT00:00:00
prune_old_bookings(st, d) ==
    LET time_str == MidnightSec(d)
        old      == {r \in st : r.end_time < time_str}
    IN  [store |-> st \ old, rows_affected |-> Cardinality(old)]

\* ------------------------------------------------------------- the remote system
\* A timestamp text of the response: parse_from_rfc3339 either fails on it
\* or yields an instant.
DateText(t) == [parses |-> TRUE, instant |-> t]
BadDateText == [parses |-> FALSE, instant |-> 0]

\* one entry of CTBookingsResponse.data, with the title the booking gets
Entry(id, res, title, sd, ed) ==
    [id |-> id, resource |-> res, title |-> title, start_date |-> sd, end_date |-> ed]

\* the bookings of one day the remote system reports: the whole day to
\* 23:59:59, and the same with a fraction of a second at its end
WholeDay == <<0, LastSec * SubSec>>
WholeDayAndFraction == <<0, LastSec * SubSec + 1>>

\* The remote system answers a query with from = d and to = EndDate(d) with
\* bookings of these days.
Entries(ids, shapes, d) ==
    {Entry(id, res, title, DateText(Midnight(dd) + sh[1]), DateText(Midnight(dd) + sh[2])) :
        id \in ids, res \in Resources, title \in Titles, dd \in d .. EndDate(d),
        sh \in shapes}

SeqsUpTo(S, n) == UNION {[1 .. k -> S] : k \in 0 .. n}

\* responses with a timestamp that does not parse, first or later in the data
BadData(d) ==
    {<<Entry(1, 10, "t", BadDateText, DateText(Midnight(d)))>>,
     <<Entry(1, 10, "t", DateText(Midnight(d)), DateText(Midnight(d))),
       Entry(1, 10, "t", DateText(Midnight(d)), BadDateText)>>}

\* what reqwest and serde hand to get_relevant_bookings: an error, or data of
\* at most n entries
Responses(entries, n, d) ==
    {[kind |-> k, data |-> <<>>] : k \in {"GetBookings", "Utf8Decode", "Deserialize"}}
    \cup {[kind |-> "data", data |-> es] : es \in SeqsUpTo(entries, n) \cup BadData(d)}

\* the responses the sync loop is checked against
SyncResponses(d) == Responses(Entries(Ids, {WholeDay, WholeDayAndFraction}, d), MaxRemote, d)

\* the responses the whole system is checked against: one booking, moved,
\* removed or unreadable
SystemResponses(d) == Responses(Entries({1}, {WholeDay}, d), 1, d)

\* pull_from_ct::get_relevant_bookings: the response as bookings, or the error
get_relevant_bookings(response) ==
    IF response.kind # "data"
    THEN [ok |-> FALSE, err |-> response.kind, bookings |-> <<>>]
    ELSE IF \E i \in 1 .. Len(response.data) :
                ~response.data[i].start_date.parses \/ ~response.data[i].end_date.parses
    THEN [ok |-> FALSE, err |-> "ParseTime", bookings |-> <<>>]
    ELSE [ok |-> TRUE, err |-> "none",
          bookings |-> [i \in 1 .. Len(response.data) |->
                          LET x == response.data[i]
                          IN  Booking(x.id, x.resource, x.title,
                                      x.start_date.instant, x.end_date.instant)]]

\* ------------------------------------------------------------- the reconciler
\* faulty variant: every booking of CT is taken as new
new_bookings_all(ct, db) == ct

\* bookings of CT whose id no booking of the db has
new_bookings(ct, db) ==
    SelectSeq(ct, LAMBDA b : ~\E i \in 1 .. Len(db) : db[i].booking_id = b.booking_id)

\* faulty variant: every id of the db is taken as deprecated
deprecated_bookings_all(ct, db) == [i \in 1 .. Len(db) |-> db[i].booking_id]

\* ids of the db whose id no booking of CT has
deprecated_bookings(ct, db) ==
    SelectSeq([i \in 1 .. Len(db) |-> db[i].booking_id],
              LAMBDA id : ~\E j \in 1 .. Len(ct) : ct[j].booking_id = id)

\* faulty variant: only the start times are compared
changed_bookings_by_start(ct, db) ==
    SelectSeq(ct, LAMBDA b : \E i \in 1 .. Len(db) :
                                db[i].booking_id = b.booking_id
                                /\ db[i].start_time # b.start_time)

\* bookings of CT that some booking of the db with the same id differs from
changed_bookings(ct, db) ==
    SelectSeq(ct, LAMBDA b : \E i \in 1 .. Len(db) :
                                db[i].booking_id = b.booking_id /\ db[i] # b)

\* faulty variant: the deletes are issued first
PlanDeleteFirst(ct, db) ==
    [i \in 1 .. Len(deprecated_bookings(ct, db)) |->
        [op |-> "delete", id |-> deprecated_bookings(ct, db)[i],
         booking |-> Booking(deprecated_bookings(ct, db)[i], 0, "", 0, 0)]]
    \o [i \in 1 .. Len(new_bookings(ct, db)) |->
        [op |-> "insert", id |-> new_bookings(ct, db)[i].booking_id,
         booking |-> new_bookings(ct, db)[i]]]
    \o [i \in 1 .. Len(changed_bookings(ct, db)) |->
        [op |-> "update", id |-> changed_bookings(ct, db)[i].booking_id,
         booking |-> changed_bookings(ct, db)[i]]]

\* the Store calls of one cycle in the order the code issues them
Plan(ct, db) ==
    [i \in 1 .. Len(new_bookings(ct, db)) |->
        [op |-> "insert", id |-> new_bookings(ct, db)[i].booking_id,
         booking |-> new_bookings(ct, db)[i]]]
    \o [i \in 1 .. Len(deprecated_bookings(ct, db)) |->
        [op |-> "delete", id |-> deprecated_bookings(ct, db)[i],
         booking |-> Booking(deprecated_bookings(ct, db)[i], 0, "", 0, 0)]]
    \o [i \in 1 .. Len(changed_bookings(ct, db)) |->
        [op |-> "update", id |-> changed_bookings(ct, db)[i].booking_id,
         booking |-> changed_bookings(ct, db)[i]]]

\* one Store call
Call(st, c) ==
    IF c.op = "insert" THEN insert_booking(st, c.booking)
    ELSE IF c.op = "delete" THEN delete_booking(st, c.id)
    ELSE update_booking(st, c.booking)

RECURSIVE RunCallsAll(_, _, _, _)
\* faulty variant: a failed call is logged and the remaining calls still run
RunCallsAll(st, plan, k, fail) ==
    IF k > Len(plan) THEN [store |-> st, calls |-> <<>>, ok |-> TRUE]
    ELSE LET c    == plan[k]
             had  == HasRow(st, c.id)
             r    == IF k = fail THEN [ok |-> FALSE, store |-> st] ELSE Call(st, c)
             done == [op |-> c.op, id |-> c.id, booking |-> c.booking,
                      row_existed |-> had, ok |-> r.ok]
             rest == RunCallsAll(r.store, plan, k + 1, fail)
         IN  [store |-> rest.store, calls |-> <<done>> \o rest.calls,
              ok |-> r.ok /\ rest.ok]

RECURSIVE RunCalls(_, _, _, _)
\* insert_bookings, delete_bookings, update_bookings: the calls of `plan` from
\* the k-th on, each awaited in turn, the first failure returned with `?`.
\* The engine fails at call number `fail`, if the run gets there.
RunCalls(st, plan, k, fail) ==
    IF k > Len(plan) THEN [store |-> st, calls |-> <<>>, ok |-> TRUE]
    ELSE LET c    == plan[k]
             had  == HasRow(st, c.id)
             r    == IF k = fail THEN [ok |-> FALSE, store |-> st] ELSE Call(st, c)
             done == [op |-> c.op, id |-> c.id, booking |-> c.booking,
                      row_existed |-> had, ok |-> r.ok]
         IN  IF ~r.ok THEN [store |-> st, calls |-> <<done>>, ok |-> FALSE]
             ELSE LET rest == RunCalls(r.store, plan, k + 1, fail)
                  IN  [store |-> rest.store, calls |-> <<done>> \o rest.calls,
                       ok |-> rest.ok]

\* get_bookings_into_db: the local query runs from 00:00:00 of the start date
\* to 23:59:59 of the day after it
WindowStart(d) == Midnight(d)
\* faulty variant: the local query ends with the first day
WindowEndSameDay(d) == Midnight(d) + LastSec * SubSec

WindowEnd(d) == Midnight(EndDate(d)) + LastSec * SubSec

\* the error a failed Store call is wrapped in (db::DBError)
DBErrorOf(op) ==
    IF op = "insert" THEN "InsertBooking"
    ELSE IF op = "delete" THEN "DeleteBooking"
    ELSE "UpdateBooking"

\* faulty variant: a failed fetch is reported, and the cycle goes on with no bookings
GatherKeepGoing(st, d, response, fail) ==
    LET fetched == get_relevant_bookings(response)
        db      == get_bookings_in_timeframe(st, WindowStart(d), WindowEnd(d))
        ct      == fetched.bookings
        run     == RunCalls(st, Plan(ct, db), 1, fail)
    IN  IF fail = 0
        THEN [res |-> "SelectBookings", store |-> st, ct |-> ct, db |-> <<>>, calls |-> <<>>]
        ELSE [res |-> IF ~fetched.ok THEN fetched.err
                      ELSE IF run.ok THEN "Ok"
                      ELSE DBErrorOf(run.calls[Len(run.calls)].op),
              store |-> run.store, ct |-> ct, db |-> db, calls |-> run.calls]

\* faulty variant: a failed Store call rolls the cycle's earlier calls back
GatherRollback(st, d, response, fail) ==
    LET fetched == get_relevant_bookings(response)
        db      == get_bookings_in_timeframe(st, WindowStart(d), WindowEnd(d))
        ct      == fetched.bookings
        run     == RunCalls(st, Plan(ct, db), 1, fail)
    IN  IF ~fetched.ok
        THEN [res |-> fetched.err, store |-> st, ct |-> <<>>, db |-> <<>>, calls |-> <<>>]
        ELSE IF fail = 0
        THEN [res |-> "SelectBookings", store |-> st, ct |-> ct, db |-> <<>>, calls |-> <<>>]
        ELSE [res |-> IF run.ok THEN "Ok" ELSE DBErrorOf(run.calls[Len(run.calls)].op),
              store |-> IF run.ok THEN run.store ELSE st,
              ct |-> ct, db |-> db, calls |-> run.calls]

\* pull_from_ct::get_bookings_into_db on day d, given the response of the
\* remote system and the number of the Store call at which the engine fails
\* (0: the SELECT; k: the k-th write; beyond the plan: none).
Gather(st, d, response, fail) ==
    LET fetched == get_relevant_bookings(response)
        db      == get_bookings_in_timeframe(st, WindowStart(d), WindowEnd(d))
        ct      == fetched.bookings
        run     == RunCalls(st, Plan(ct, db), 1, fail)
    IN  IF ~fetched.ok
        THEN [res |-> fetched.err, store |-> st, ct |-> <<>>, db |-> <<>>, calls |-> <<>>]
        ELSE IF fail = 0
        THEN [res |-> "SelectBookings", store |-> st, ct |-> ct, db |-> <<>>, calls |-> <<>>]
        ELSE [res |-> IF run.ok THEN "Ok" ELSE DBErrorOf(run.calls[Len(run.calls)].op),
              store |-> run.store, ct |-> ct, db |-> db, calls |-> run.calls]

\* ------------------------------------------------------------- the watch channel
\* faulty variant: a second trigger puts the flag back
send_replace_toggle(sh) ==
    [value |-> IF sh.value = "Yes" THEN "No" ELSE "Yes", version |-> sh.version + 1]

\* Sender::send_replace(InShutdown::Yes)
send_replace(sh) == [value |-> "Yes", version |-> sh.version + 1]

\* Sender::subscribe: the new receiver has seen the current value
subscribe(sh) == sh.version

\* faulty variant: ready only while exactly one sent value is unseen
changed_once(sh, seen_version) == sh.version = seen_version + 1

\* Receiver::changed is ready: a value was sent that the receiver has not seen
changed(sh, seen_version) == seen_version # sh.version

\* ------------------------------------------------------------- state
VARIABLES
    shutdown,          \* the watch channel: its value and its version
    seen,              \* per receiver, the version it has seen; NoReceiver before it exists
    mpc, gpc, spc, wpc,\* where main, the sync loop, the signal handler, the web server are
    today,             \* the current day (UTC)
    store,             \* the rows of the bookings table
    start,             \* get_bookings_into_db: the date the cycle started on
    bookings_from_ct,  \* get_bookings_into_db: what the cycle fetched
    bookings_from_db,  \* get_bookings_into_db: what the cycle found in the store
    calls,             \* the Store calls the cycle issued, in order, with their outcome
    ct_to_db_res,      \* keep_db_up_to_date: the outcome of the last reconcile step
    db_prune_res,      \* keep_db_up_to_date: the outcome of the last prune step
    last_response      \* the web server: the request it answered last, and its answer

vars == <<shutdown, seen, mpc, gpc, spc, wpc, today, store, start, bookings_from_ct,
          bookings_from_db, calls, ct_to_db_res, db_prune_res, last_response>>

chan_vars == <<shutdown, seen>>
sync_vars == <<store, start, bookings_from_ct, bookings_from_db, calls, ct_to_db_res, db_prune_res>>

NoReceiver == -1
\* before the first request
NoResponse ==
    [handler |-> "none", now |-> 0, query_ok |-> TRUE, status |-> 0, template |-> "",
     data |-> {}, events |-> <<>>]
Signals == {"SIGTERM", "SIGHUP", "SIGINT", "ctrl_c", "ctrl_c_err"}
Listeners == {"http", "https"}

\* main, after `watch::channel(InShutdown::No)`
Init ==
    /\ shutdown = [value |-> "No", version |-> 0]
    /\ seen = [r \in {"gatherer", "signal", "web"} |->
                 IF r = "gatherer" THEN 0 ELSE NoReceiver]
    /\ mpc = "spawn_gatherer"
    /\ gpc = "unspawned"
    /\ spc = "unspawned"
    /\ wpc = "uncreated"
    /\ today = 1
    /\ store = {}
    /\ start = 0
    /\ bookings_from_ct = <<>>
    /\ bookings_from_db = <<>>
    /\ calls = <<>>
    /\ ct_to_db_res = "none"
    /\ db_prune_res = [state |-> "none", rows |-> 0]
    /\ last_response = NoResponse

\* ------------------------------------------------------------- main
\* tokio::spawn(keep_db_up_to_date(config, rx))
MainSpawnGatherer ==
    /\ mpc = "spawn_gatherer"
    /\ mpc' = "spawn_signal"
    /\ gpc' = "tick0"
    /\ UNCHANGED <<last_response, chan_vars, spc, wpc, today, sync_vars>>

\* tokio::spawn(signal_handler(tx.subscribe(), tx.clone()))
MainSpawnSignal ==
    /\ mpc = "spawn_signal"
    /\ mpc' = "create_web"
    /\ seen' = [seen EXCEPT !["signal"] = subscribe(shutdown)]
    /\ spc' = "install"
    /\ UNCHANGED <<last_response, shutdown, gpc, wpc, today, sync_vars>>

\* web::run_web_server(config, tx.subscribe(), tx.clone()): the future is made
MainCreateWeb ==
    /\ mpc = "create_web"
    /\ mpc' = "join"
    /\ seen' = [seen EXCEPT !["web"] = subscribe(shutdown)]
    /\ wpc' = "created"
    /\ UNCHANGED <<last_response, shutdown, gpc, spc, today, sync_vars>>

\* tokio::join!: the web server's future is polled and runs to its select!
MainJoin ==
    /\ mpc = "join"
    /\ mpc' = "joining"
    /\ wpc' = "select"
    /\ UNCHANGED <<last_response, chan_vars, gpc, spc, today, sync_vars>>

\* the join completes
MainJoined ==
    /\ mpc = "joining"
    /\ gpc = "returned" /\ spc = "returned" /\ wpc = "returned"
    /\ mpc' = "done"
    /\ UNCHANGED <<last_response, chan_vars, gpc, spc, wpc, today, sync_vars>>

\* ------------------------------------------------------------- signal_handler
\* The three listeners are installed; if one cannot be, shutdown is
\* triggered and the handler returns the error.
SignalInstall ==
    /\ spc = "install"
    /\ \E installed \in BOOLEAN :
          IF installed
          THEN /\ spc' = "select"
               /\ UNCHANGED shutdown
          ELSE /\ shutdown' = send_replace(shutdown)
               /\ spc' = "returned"
    /\ UNCHANGED <<last_response, seen, mpc, gpc, wpc, today, sync_vars>>

\* select!: a signal (or Ctrl-C, or the error of listening for it) arrives
SignalReceived ==
    /\ spc = "select"
    /\ \E sig \in Signals :
          /\ shutdown' = send_replace(shutdown)
          /\ spc' = "returned"
    /\ UNCHANGED <<last_response, seen, mpc, gpc, wpc, today, sync_vars>>

\* select!: watcher.changed()
SignalCancelled ==
    /\ spc = "select"
    /\ changed(shutdown, seen["signal"])
    /\ seen' = [seen EXCEPT !["signal"] = shutdown.version]
    /\ spc' = "returned"
    /\ UNCHANGED <<last_response, shutdown, mpc, gpc, wpc, today, sync_vars>>

\* ------------------------------------------------------------- run_web_server
\* faulty variant: the listener's error ends the web server, the flag untouched
WebListenerErrorSilent ==
    /\ wpc = "select"
    /\ wpc' = "returned"
    /\ UNCHANGED <<last_response, shutdown, seen, mpc, gpc, spc, today, sync_vars>>

\* select!: a listener ends with an error
WebListenerError ==
    /\ wpc = "select"
    /\ \E l \in Listeners :
          /\ shutdown' = send_replace(shutdown)
          /\ wpc' = "returned"
    /\ UNCHANGED <<last_response, seen, mpc, gpc, spc, today, sync_vars>>

\* select!: shutdown_signal's watcher.changed(), then graceful_shutdown.
\* (A listener returns Ok only after graceful_shutdown, when the select! has
\* already taken this branch.)
WebCancelled ==
    /\ wpc = "select"
    /\ changed(shutdown, seen["web"])
    /\ seen' = [seen EXCEPT !["web"] = shutdown.version]
    /\ wpc' = "returned"
    /\ UNCHANGED <<last_response, shutdown, mpc, gpc, spc, today, sync_vars>>

\* ------------------------------------------------------------- keep_db_up_to_date
\* faulty variant: a failed reconcile ends the loop
AfterGatherFatal(res) == IF res = "Ok" THEN "prune" ELSE "returned"

\* faulty variant: a failed reconcile skips the prune
AfterGatherSkipPrune(res) == IF res = "Ok" THEN "prune" ELSE "select"

\* where the loop goes after the match on ct_to_db_res
AfterGather(res) == "prune"

\* where the loop goes after the match on db_prune_res
AfterPrune(res) == "select"

\* faulty variant: the loop looks at the flag before its first cycle
GathererFirstTickOrCancel ==
    /\ gpc = "tick0"
    /\ gpc' = IF changed(shutdown, seen["gatherer"]) THEN "returned" ELSE "get"
    /\ UNCHANGED <<last_response, chan_vars, mpc, spc, wpc, today, sync_vars>>

\* the first interval.tick() completes at once
GathererFirstTick ==
    /\ gpc = "tick0"
    /\ gpc' = "get"
    /\ UNCHANGED <<last_response, chan_vars, mpc, spc, wpc, today, sync_vars>>

\* faulty variant: the cycle is abandoned when shutdown was signalled
ReconcileUnlessCancelled(responses) ==
    /\ gpc = "get"
    /\ IF shutdown.value = "Yes"
       THEN /\ gpc' = "returned"
            /\ UNCHANGED <<store, start, bookings_from_ct, bookings_from_db, calls,
                           ct_to_db_res>>
       ELSE \E response \in responses :
              LET ct == get_relevant_bookings(response).bookings
                  db == get_bookings_in_timeframe(store, WindowStart(today), WindowEnd(today))
              IN  \E fail \in 0 .. Len(Plan(ct, db)) + 1 :
                     LET r == Gather(store, today, response, fail)
                     IN  /\ store' = r.store
                         /\ start' = today
                         /\ bookings_from_ct' = r.ct
                         /\ bookings_from_db' = r.db
                         /\ calls' = r.calls
                         /\ ct_to_db_res' = r.res
                         /\ gpc' = AfterGather(r.res)
    /\ UNCHANGED <<last_response, chan_vars, mpc, spc, wpc, today, db_prune_res>>

\* get_bookings_into_db(config).await and the match on its result, the
\* remote system answering with one of `responses`
Reconcile(responses) ==
    /\ gpc = "get"
    /\ \E response \in responses :
          LET ct == get_relevant_bookings(response).bookings
              db == get_bookings_in_timeframe(store, WindowStart(today), WindowEnd(today))
          IN  \E fail \in 0 .. Len(Plan(ct, db)) + 1 :
                 LET r == Gather(store, today, response, fail)
                 IN  /\ store' = r.store
                     /\ start' = today
                     /\ bookings_from_ct' = r.ct
                     /\ bookings_from_db' = r.db
                     /\ calls' = r.calls
                     /\ ct_to_db_res' = r.res
                     /\ gpc' = AfterGather(r.res)
    /\ UNCHANGED <<last_response, chan_vars, mpc, spc, wpc, today, db_prune_res>>

GathererReconcile == Reconcile(SystemResponses(today))

SyncReconcile == Reconcile(SyncResponses(today))

\* prune_old_bookings(&config.db).await and the match on its result
GathererPrune ==
    /\ gpc = "prune"
    /\ \E engine_ok \in BOOLEAN :
          LET r == prune_old_bookings(store, today)
          IN  IF engine_ok
              THEN /\ store' = r.store
                   /\ db_prune_res' = [state |-> "Ok", rows |-> r.rows_affected]
                   /\ gpc' = AfterPrune("Ok")
              ELSE /\ store' = store
                   /\ db_prune_res' = [state |-> "Err", rows |-> 0]
                   /\ gpc' = AfterPrune("Err")
    /\ start' = 0
    /\ bookings_from_ct' = <<>>
    /\ bookings_from_db' = <<>>
    /\ calls' = <<>>
    /\ UNCHANGED <<last_response, chan_vars, mpc, spc, wpc, today, ct_to_db_res>>

\* select!: watcher.changed()
GathererCancelled ==
    /\ gpc = "select"
    /\ changed(shutdown, seen["gatherer"])
    /\ seen' = [seen EXCEPT !["gatherer"] = shutdown.version]
    /\ gpc' = "returned"
    /\ UNCHANGED <<last_response, shutdown, mpc, spc, wpc, today, sync_vars>>

\* select!: interval.tick()
GathererTick ==
    /\ gpc = "select"
    /\ gpc' = "get"
    /\ ct_to_db_res' = "none"
    /\ db_prune_res' = [state |-> "none", rows |-> 0]
    /\ UNCHANGED <<last_response, chan_vars, mpc, spc, wpc, today, store, start, bookings_from_ct,
                   bookings_from_db, calls>>

\* ------------------------------------------------------------- the clock
\* midnight passes (chrono::Utc::now() is read by each cycle and each prune)
NewDay ==
    /\ today < MaxDay
    /\ today' = today + 1
    /\ UNCHANGED <<last_response, chan_vars, mpc, gpc, spc, wpc, sync_vars>>

Next ==
    \/ MainSpawnGatherer \/ MainSpawnSignal \/ MainCreateWeb \/ MainJoin \/ MainJoined
    \/ SignalInstall \/ SignalReceived \/ SignalCancelled
    \/ WebListenerError \/ WebCancelled
    \/ GathererFirstTick \/ GathererReconcile \/ GathererPrune
    \/ GathererCancelled \/ GathererTick
    \/ NewDay

Spec == Init /\ [][Next]_vars

\* The sync loop alone, against every response: the other tasks share only
\* the watch channel with it, and here nobody triggers shutdown.
SyncNext ==
    \/ MainSpawnGatherer
    \/ GathererFirstTick \/ SyncReconcile \/ GathererPrune \/ GathererTick
    \/ NewDay

SyncSpec == Init /\ [][SyncNext]_vars

\* ------------------------------------------------------------- the store on its own
\* The functions of db.rs, each called once on a table of bookings of the
\* days 1 .. MaxDay: booking 1 with any start and end (whole seconds, as
\* the table keeps them), booking 2 on the whole of day 1 or absent.
StoreSeconds == MidnightSec(1) .. MidnightSec(MaxDay) + LastSec

StoreRows(id) ==
    LET all == {[booking_id |-> id, resource_id |-> res, title |-> title,
                 start_time |-> s, end_time |-> e] :
                   res \in Resources, title \in Titles,
                   s \in StoreSeconds, e \in StoreSeconds}
    IN  {r \in all : r.start_time <= r.end_time}

StoreStates ==
    {r1 \cup r2 :
        r1 \in {{}} \cup {{r} : r \in StoreRows(1)},
        r2 \in {{}} \cup {{r \in StoreRows(2) : /\ r.start_time = MidnightSec(1)
                                                /\ r.end_time = MidnightSec(1) + LastSec}}}

\* the instants a caller passes: any tick of the days 1 .. MaxDay
StoreInstants == Midnight(1) .. Midnight(MaxDay + 1) - 1

\* the bookings a caller writes: as the table has them, or in another room
\* under another title
StoreBookings ==
    {Booking(id, rt[1], rt[2], Midnight(d) + sh[1], Midnight(d) + sh[2]) :
        id \in Ids, rt \in (Resources \X Titles) \cup {<<11, "u">>}, d \in 1 .. MaxDay,
        sh \in {WholeDay, WholeDayAndFraction}}

\* the record of one call: what was asked, on which table, how it ended
StoreCall(op, id, booking, s, e, ok) ==
    [op |-> op, id |-> id, booking |-> booking, start |-> s, end |-> e,
     before |-> store, row_existed |-> HasRow(store, id), ok |-> ok]

\* the table before the first call
StoreInit ==
    /\ shutdown = [value |-> "No", version |-> 0]
    /\ seen = [r \in {"gatherer", "signal", "web"} |->
                 IF r = "gatherer" THEN 0 ELSE NoReceiver]
    /\ mpc = "spawn_gatherer"
    /\ gpc = "unspawned"
    /\ spc = "unspawned"
    /\ wpc = "uncreated"
    /\ today \in 1 .. MaxDay
    /\ store \in StoreStates
    /\ start = 0
    /\ bookings_from_ct = <<>>
    /\ bookings_from_db = <<>>
    /\ calls = <<>>
    /\ ct_to_db_res = "none"
    /\ db_prune_res = [state |-> "none", rows |-> 0]
    /\ last_response = NoResponse

\* get_bookings_in_timeframe(db, start, end).await
StoreQuery ==
    /\ calls = <<>>
    /\ \E s \in StoreInstants, e \in StoreInstants, engine_ok \in BOOLEAN :
          /\ s <= e
          /\ calls' = <<StoreCall("select", 0, Booking(0, 0, "", 0, 0), s, e, engine_ok)>>
          /\ bookings_from_db' =
                IF engine_ok THEN get_bookings_in_timeframe(store, s, e) ELSE <<>>
    /\ UNCHANGED <<last_response, chan_vars, mpc, gpc, spc, wpc, today, store, start, bookings_from_ct,
                   ct_to_db_res, db_prune_res>>

\* a write call on the table: the statement, unless the engine fails
WriteOutcome(op, id, b, engine_ok) ==
    IF engine_ok THEN Call(store, [op |-> op, id |-> id, booking |-> b])
    ELSE [ok |-> FALSE, store |-> store]

\* insert_booking(db, booking).await
StoreInsert ==
    /\ calls = <<>>
    /\ \E b \in StoreBookings, engine_ok \in BOOLEAN :
          LET r == WriteOutcome("insert", b.booking_id, b, engine_ok)
          IN  /\ calls' = <<StoreCall("insert", b.booking_id, b, 0, 0, r.ok)>>
              /\ store' = r.store
    /\ UNCHANGED <<last_response, chan_vars, mpc, gpc, spc, wpc, today, start, bookings_from_ct,
                   bookings_from_db, ct_to_db_res, db_prune_res>>

\* delete_booking(db, booking_id).await
StoreDelete ==
    /\ calls = <<>>
    /\ \E id \in Ids, engine_ok \in BOOLEAN :
          LET r == WriteOutcome("delete", id, Booking(id, 0, "", 0, 0), engine_ok)
          IN  /\ calls' = <<StoreCall("delete", id, Booking(id, 0, "", 0, 0), 0, 0, r.ok)>>
              /\ store' = r.store
    /\ UNCHANGED <<last_response, chan_vars, mpc, gpc, spc, wpc, today, start, bookings_from_ct,
                   bookings_from_db, ct_to_db_res, db_prune_res>>

\* delete_booking(db, booking_id).await once more, for the id just deleted
StoreDeleteAgain ==
    /\ Len(calls) = 1 /\ calls[1].op = "delete" /\ calls[1].ok
    /\ \E engine_ok \in BOOLEAN :
          LET id == calls[1].id
              r  == WriteOutcome("delete", id, Booking(id, 0, "", 0, 0), engine_ok)
          IN  /\ calls' = Append(calls, StoreCall("delete", id, Booking(id, 0, "", 0, 0),
                                                  0, 0, r.ok))
              /\ store' = r.store
    /\ UNCHANGED <<last_response, chan_vars, mpc, gpc, spc, wpc, today, start, bookings_from_ct,
                   bookings_from_db, ct_to_db_res, db_prune_res>>

\* update_booking(db, booking).await
StoreUpdate ==
    /\ calls = <<>>
    /\ \E b \in StoreBookings, engine_ok \in BOOLEAN :
          LET r == WriteOutcome("update", b.booking_id, b, engine_ok)
          IN  /\ calls' = <<StoreCall("update", b.booking_id, b, 0, 0, r.ok)>>
              /\ store' = r.store
    /\ UNCHANGED <<last_response, chan_vars, mpc, gpc, spc, wpc, today, start, bookings_from_ct,
                   bookings_from_db, ct_to_db_res, db_prune_res>>

\* get_bookings_in_timeframe(db, start, end).await for the interval of the
\* booking just written
StoreReadBack ==
    /\ Len(calls) = 1 /\ calls[1].op \in {"insert", "update"} /\ calls[1].ok
    /\ \E engine_ok \in BOOLEAN :
          LET b == calls[1].booking
          IN  /\ calls' = Append(calls, StoreCall("select", 0, Booking(0, 0, "", 0, 0),
                                                  b.start_time, b.end_time, engine_ok))
              /\ bookings_from_db' =
                    IF engine_ok
                    THEN get_bookings_in_timeframe(store, b.start_time, b.end_time)
                    ELSE <<>>
    /\ UNCHANGED <<last_response, chan_vars, mpc, gpc, spc, wpc, today, store, start, bookings_from_ct,
                   ct_to_db_res, db_prune_res>>

\* prune_old_bookings(db).await
StorePrune ==
    /\ calls = <<>>
    /\ \E engine_ok \in BOOLEAN :
          LET r == prune_old_bookings(store, today)
          IN  /\ calls' = <<StoreCall("prune", 0, Booking(0, 0, "", 0, 0), 0, 0, engine_ok)>>
              /\ store' = IF engine_ok THEN r.store ELSE store
              /\ db_prune_res' = IF engine_ok
                                 THEN [state |-> "Ok", rows |-> r.rows_affected]
                                 ELSE [state |-> "Err", rows |-> 0]
    /\ UNCHANGED <<last_response, chan_vars, mpc, gpc, spc, wpc, today, start, bookings_from_ct,
                   bookings_from_db, ct_to_db_res>>

StoreNext ==
    \/ StoreQuery \/ StoreInsert \/ StoreDelete \/ StoreDeleteAgain \/ StoreUpdate
    \/ StoreReadBack \/ StorePrune

StoreSpec == StoreInit /\ [][StoreNext]_vars

\* ------------------------------------------------------------- the read path
\* config.rooms: the resources that have a room
Rooms == Resources

\* the 120 minutes a request looks ahead, in the model one second of its day
Lookahead == SubSec

\* Uuid::new_v4()
Uuids == {"uuid-a", "uuid-b"}

\* Event::create_from_booking: the event, if the resource has a room
create_from_booking(b) ==
    IF b.resource_id \in Rooms
    THEN [some |-> TRUE,
          event |-> [name |-> b.title, start_time |-> b.start_time,
                     end_time |-> b.end_time, room |-> b.resource_id]]
    ELSE [some |-> FALSE,
          event |-> [name |-> "", start_time |-> 0, end_time |-> 0, room |-> 0]]

\* faulty variant: the error of the store is shown to the client
internal_server_error_with_detail(handler, now, query_ok, e, error_uuid) ==
    [handler |-> handler, now |-> now, query_ok |-> query_ok, status |-> 500,
     template |-> "500.html", data |-> {error_uuid, e}, events |-> <<>>]

\* (StatusCode::INTERNAL_SERVER_ERROR, InternalServerErrorTemplate { error_uuid }):
\* the error `e` goes to the log only
internal_server_error(handler, now, query_ok, e, error_uuid) ==
    [handler |-> handler, now |-> now, query_ok |-> query_ok, status |-> 500,
     template |-> "500.html", data |-> {error_uuid}, events |-> <<>>]

\* faulty variant: a booking without a room is left out and the rest is shown
AnswerSkipUnknown(handler, now, engine_ok, error_uuid) ==
    LET bookings == get_bookings_in_timeframe(store, now, now + Lookahead)
        known    == SelectSeq(bookings, LAMBDA b : create_from_booking(b).some)
    IN  IF ~engine_ok
        THEN internal_server_error(handler, now, FALSE, "SelectBookings", error_uuid)
        ELSE [handler |-> handler, now |-> now, query_ok |-> TRUE, status |-> 200,
              template |-> IF handler = "root" THEN "landing.html" ELSE "text/calendar",
              data |-> {},
              events |-> [i \in 1 .. Len(known) |-> create_from_booking(known[i]).event]]

\* root and all_rooms_ics: the answer to a request at the instant `now`
Answer(handler, now, engine_ok, error_uuid) ==
    LET bookings == get_bookings_in_timeframe(store, now, now + Lookahead)
        events   == [i \in 1 .. Len(bookings) |-> create_from_booking(bookings[i])]
    IN  IF ~engine_ok
        THEN internal_server_error(handler, now, FALSE, "SelectBookings", error_uuid)
        ELSE IF \E i \in 1 .. Len(events) : ~events[i].some
        THEN internal_server_error(handler, now, TRUE, "none", error_uuid)
        ELSE [handler |-> handler, now |-> now, query_ok |-> TRUE, status |-> 200,
              template |-> IF handler = "root" THEN "landing.html" ELSE "text/calendar",
              data |-> {}, events |-> [i \in 1 .. Len(events) |-> events[i].event]]

\* GET /
WebRoot ==
    /\ wpc = "select"
    /\ \E now \in Midnight(today) .. Midnight(today + 1) - 1,
          engine_ok \in BOOLEAN, error_uuid \in Uuids :
          last_response' = Answer("root", now, engine_ok, error_uuid)
    /\ UNCHANGED <<chan_vars, mpc, gpc, spc, wpc, today, sync_vars>>

\* GET /all_rooms.ics
WebAllRoomsIcs ==
    /\ wpc = "select"
    /\ \E now \in Midnight(today) .. Midnight(today + 1) - 1,
          engine_ok \in BOOLEAN, error_uuid \in Uuids :
          last_response' = Answer("all_rooms_ics", now, engine_ok, error_uuid)
    /\ UNCHANGED <<chan_vars, mpc, gpc, spc, wpc, today, sync_vars>>

\* the tables a request may find: those of StoreStates, booking 2 also on a
\* resource that has no room
ReadStates ==
    StoreStates \cup
    {{IF r.booking_id = 2 THEN [r EXCEPT !.resource_id = 11] ELSE r : r \in st} :
        st \in StoreStates}

\* the web server serving, main waiting in its join
ReadInit ==
    /\ shutdown = [value |-> "No", version |-> 0]
    /\ seen = [r \in {"gatherer", "signal", "web"} |-> 0]
    /\ mpc = "joining"
    /\ gpc = "select"
    /\ spc = "select"
    /\ wpc = "select"
    /\ today \in 1 .. MaxDay
    /\ store \in ReadStates
    /\ start = 0
    /\ bookings_from_ct = <<>>
    /\ bookings_from_db = <<>>
    /\ calls = <<>>
    /\ ct_to_db_res = "none"
    /\ db_prune_res = [state |-> "none", rows |-> 0]
    /\ last_response = NoResponse

ReadNext == WebRoot \/ WebAllRoomsIcs

ReadSpec == ReadInit /\ [][ReadNext]_vars

\* ------------------------------------------------------------- helpers of the claims
\* the steps the program takes on its own; signals, listener errors and
\* midnight come from outside and need not come at all
ProgramStep ==
    \/ MainSpawnGatherer \/ MainSpawnSignal \/ MainCreateWeb \/ MainJoin \/ MainJoined
    \/ SignalInstall \/ SignalCancelled \/ WebCancelled
    \/ GathererFirstTick \/ GathererPrune \/ GathererCancelled \/ GathererTick
    \/ GathererReconcile

\* the cycle has fetched and queried, and its Store calls are on record
CycleDone == gpc = "prune"

FetchErrors == {"GetBookings", "Utf8Decode", "Deserialize", "ParseTime"}

\* the cycle got as far as comparing the two sources
Compared == CycleDone /\ ct_to_db_res \notin FetchErrors \cup {"SelectBookings", "none"}

Count(seq, x) == Cardinality({i \in 1 .. Len(seq) : seq[i] = x})

IdsOf(seq) == {seq[i].booking_id : i \in 1 .. Len(seq)}

UniqueIds(seq) ==
    \A i, j \in 1 .. Len(seq) : seq[i].booking_id = seq[j].booking_id => i = j

\* the rows of the store that intersect the query window of the cycle
RowsInWindow ==
    {r \in store : r.start_time <= FormatTime(WindowEnd(start))
                   /\ FormatTime(WindowStart(start)) <= r.end_time}

\* ------------------------------------------------------------- claims

\* C1: once shutdown is triggered - at any point after the channel exists,
\* also before another task has its receiver - the sync loop, the signal
\* handler and the web server all return and main's join completes.  Stated
\* so that a finite run refutes it: after the trigger, until the join has
\* completed, some task can still take a step of its own (none waits for a
\* change that can no longer come).
C1_ShutdownEndsEveryTask ==
    shutdown.value = "Yes" => (mpc = "done" \/ ENABLED ProgramStep)

\* C2: after a cycle whose fetch and Store calls all succeeded, the stored
\* bookings that intersect the cycle's window are exactly the fetched ones
\* (compared as the store writes them), one row per booking_id.
C2_StoreEqualsRemoteAfterCycle ==
    (CycleDone /\ ct_to_db_res = "Ok") =>
        /\ RowsInWindow = {RowOf(bookings_from_ct[i]) : i \in 1 .. Len(bookings_from_ct)}
        /\ \A r1, r2 \in store : r1.booking_id = r2.booking_id => r1 = r2

C4_DiffKeysDisjoint ==
    Compared =>
        LET ct  == bookings_from_ct
            db  == bookings_from_db
            ins == IdsOf(new_bookings(ct, db))
            del == Range(deprecated_bookings(ct, db))
            upd == IdsOf(changed_bookings(ct, db))
        IN  /\ ins \cap del = {}
            /\ ins \cap upd = {}
            /\ del \cap upd = {}
            /\ \A x \in Range(db) :
                  (/\ x.booking_id \in IdsOf(ct)
                   /\ \A b \in Range(ct) : b.booking_id = x.booking_id => b = x)
                  => x.booking_id \notin (ins \cup del \cup upd)

C4_Witness ==
    /\ Compared
    /\ new_bookings(bookings_from_ct, bookings_from_db) # <<>>
    /\ \E x \in Range(bookings_from_db) : x \in Range(bookings_from_ct)

\* C5: after a cycle that completed successfully, a second cycle with the
\* same remote set and an unchanged store finds nothing to insert, delete or
\* update.
C5_SecondCycleIsEmpty ==
    (CycleDone /\ ct_to_db_res = "Ok") =>
        Plan(bookings_from_ct,
             get_bookings_in_timeframe(store, WindowStart(start), WindowEnd(start))) = <<>>

\* C6: reconciliation never issues an insert for a booking_id that has a row
\* in the store, nor an update for one that has none - here even for the
\* fetches in which every booking_id occurs once.
C6_NoInsertOfExistingKey ==
    (CycleDone /\ UniqueIds(bookings_from_ct)) =>
        \A i \in 1 .. Len(calls) :
            /\ calls[i].op = "insert" => ~calls[i].row_existed
            /\ calls[i].op = "update" => calls[i].row_existed

\* C7: a fetch with two entries of the same booking_id fails the cycle, and
\* neither entry is written to the store.
C7_DuplicateIdFailsCycle ==
    (CycleDone /\ ct_to_db_res \notin FetchErrors /\ ~UniqueIds(bookings_from_ct)) =>
        /\ ct_to_db_res # "Ok"
        /\ \A i \in 1 .. Len(calls) :
              (calls[i].ok /\ calls[i].op \in {"insert", "update"}) =>
                 Count([j \in 1 .. Len(bookings_from_ct) |-> bookings_from_ct[j].booking_id],
                       calls[i].id) < 2

\* C8: a cycle whose fetch fails issues no Store call, leaves the store as it
\* was, and goes on to prune without fetching again.
C8_FetchFailureSkipsReconcile ==
    [][(gpc = "get" /\ gpc' # "get" /\ ct_to_db_res' \in FetchErrors) =>
          /\ calls' = <<>>
          /\ bookings_from_db' = <<>>
          /\ store' = store
          /\ gpc' = "prune"]_vars

C8_Witness ==
    /\ CycleDone
    /\ ct_to_db_res = "ParseTime"
    /\ store # {}

\* C9: the sync loop returns only after shutdown was signalled; whatever the
\* fetch, the reconcile and the prune came to, it is at a step it can take.
C9_LoopEndsOnlyOnCancel ==
    /\ gpc = "returned" => shutdown.value = "Yes"
    /\ gpc = "get" => ENABLED GathererReconcile
    /\ gpc = "prune" => ENABLED GathererPrune
    /\ gpc = "select" => ENABLED GathererTick
    /\ gpc \in {"unspawned", "tick0", "get", "prune", "select", "returned"}

C9_Witness ==
    /\ gpc = "select"
    /\ shutdown.value = "No"
    /\ ct_to_db_res \notin {"Ok", "none"}
    /\ db_prune_res.state = "Err"

\* C10: in every cycle prune is attempted exactly once, after the reconcile
\* step, whatever that step came to; a failed prune leaves the next tick open.
C10_PruneOncePerCycle ==
    /\ [](gpc \in {"get", "prune"} => db_prune_res.state = "none")
    /\ [](gpc = "select" => (db_prune_res.state \in {"Ok", "Err"} /\ ENABLED GathererTick))
    /\ [][/\ (gpc = "get" /\ gpc' # "get") => (gpc' = "prune" /\ ct_to_db_res' # "none")
          /\ (gpc = "prune" /\ gpc' # "prune") => gpc' = "select"
          /\ (gpc' = "select" /\ gpc # "select") => gpc = "prune"]_vars

C10_Witness ==
    /\ gpc = "select"
    /\ ct_to_db_res \in FetchErrors \cup {"SelectBookings", "InsertBooking"}
    /\ db_prune_res.state = "Ok"

\* the rows a set of rows becomes when the Store calls on record that
\* succeeded are applied to it, one after the other
RECURSIVE ApplySucceeded(_, _, _)
ApplySucceeded(st, log, k) ==
    IF k > Len(log) THEN st
    ELSE ApplySucceeded(IF log[k].ok THEN Call(st, log[k]).store ELSE st, log, k + 1)

WriteErrors == {"InsertBooking", "DeleteBooking", "UpdateBooking"}

\* C11: when a Store call fails partway through applying a diff, the calls
\* of that cycle that already succeeded stay applied: the store after the
\* cycle is the store before it with exactly the succeeded calls carried
\* out, the failed call is the last one issued, and nothing is rolled back.
C11_NoRollbackOnFailure ==
    [][(gpc = "get" /\ gpc' # "get" /\ ct_to_db_res' \in WriteErrors) =>
          /\ calls' # <<>>
          /\ ~calls'[Len(calls')].ok
          /\ \A i \in 1 .. Len(calls') - 1 : calls'[i].ok
          /\ store' = ApplySucceeded(store, calls', 1)]_vars

C11_Witness ==
    /\ CycleDone
    /\ ct_to_db_res = "InsertBooking"
    /\ Len(calls) = 2
    /\ calls[1].op = "insert" /\ calls[1].ok /\ ~calls[1].row_existed
    /\ calls[2].id # calls[1].id
    /\ RowOf(calls[1].booking) \in store

\* the response of the remote system that carries the bookings `ct`
ResponseOf(ct) ==
    [kind |-> "data",
     data |-> [i \in 1 .. Len(ct) |->
                 Entry(ct[i].booking_id, ct[i].resource_id, ct[i].title,
                       DateText(ct[i].start_time), DateText(ct[i].end_time))]]

\* the cycle that follows on the same day: the prune of this cycle, then a
\* fetch with the same answer, none of the Store calls failing in the engine
NextCycle ==
    Gather(prune_old_bookings(store, today).store, today, ResponseOf(bookings_from_ct),
           Len(bookings_from_ct) + Cardinality(store) + 1)

\* C12: after a cycle whose reconciliation failed partway, the next cycle -
\* the remote set unchanged, no fetch or engine failure - completes
\* successfully and leaves the stored bookings of the window equal to the
\* remote set.
C12_NextCycleHeals ==
    (/\ CycleDone /\ ct_to_db_res \in WriteErrors /\ today = start
     /\ \E i \in 1 .. Len(calls) : calls[i].ok) =>
        /\ NextCycle.res = "Ok"
        /\ {r \in NextCycle.store : r.start_time <= FormatTime(WindowEnd(today))
                                     /\ FormatTime(WindowStart(today)) <= r.end_time}
              = {RowOf(bookings_from_ct[i]) : i \in 1 .. Len(bookings_from_ct)}

\* C13: within one cycle the Store calls are issued in the order inserts,
\* deletes, updates: no delete before the last insert, no update before the
\* last delete (nor before the last insert).
C13_InsertsDeletesUpdates ==
    \A i, j \in 1 .. Len(calls) :
        i < j => /\ calls[i].op = "delete" => calls[j].op # "insert"
                 /\ calls[i].op = "update" => calls[j].op = "update"

C13_Witness ==
    /\ CycleDone
    /\ Len(calls) = 2
    /\ calls[1].op = "insert" /\ calls[1].ok
    /\ calls[2].op = "delete" /\ calls[2].ok

\* C14: the shutdown flag starts as InShutdown::No, and once a task has set
\* it to InShutdown::Yes no later state has it back at No.
C14_FlagIsMonotone ==
    /\ shutdown.value = "No"
    /\ [][shutdown.value = "Yes" => shutdown'.value = "Yes"]_vars
    /\ [](shutdown.value \in {"No", "Yes"})

C14_Witness ==
    /\ shutdown.value = "Yes"
    /\ shutdown.version = 2
    /\ mpc = "done"

\* where the task that holds receiver r is
TaskPc(r) == IF r = "gatherer" THEN gpc ELSE IF r = "signal" THEN spc ELSE wpc

\* C15: triggering shutdown again is safe.  A trigger on a flag that is
\* already Yes leaves it Yes and changes for no other running task whether
\* its receiver is ready; and when the signal handler and the web server
\* have both triggered, in whatever order, the flag is Yes, both have
\* returned and the sync loop returns from its wait point as after one
\* trigger.
C15_RepeatedTriggerIsSafe ==
    /\ [](shutdown.version >= 2 =>
             /\ shutdown.value = "Yes"
             /\ spc = "returned" /\ wpc = "returned"
             /\ gpc = "select" => ENABLED GathererCancelled
             /\ gpc # "returned" => changed(shutdown, seen["gatherer"]))
    /\ [][(shutdown.value = "Yes" /\ shutdown'.version # shutdown.version) =>
             /\ shutdown'.value = "Yes"
             /\ \A r \in DOMAIN seen :
                   (seen[r] # NoReceiver /\ TaskPc(r)' # "returned") =>
                      /\ seen'[r] = seen[r]
                      /\ changed(shutdown', seen'[r]) <=> changed(shutdown, seen[r])]_vars

C15_Witness ==
    /\ shutdown.version = 2
    /\ gpc = "select"
    /\ seen["gatherer"] = 0
    /\ spc = "returned" /\ wpc = "returned"

\* C16: cancellation is cooperative.  With shutdown signalled while a cycle
\* is in flight, the reconcile step and the prune step still run, each with
\* an outcome it has without cancellation, and the loop returns only from
\* its wait point, on the change of the flag.
C16_CancellationIsCooperative ==
    /\ [](shutdown.value = "Yes" =>
             /\ gpc = "get" => ENABLED GathererReconcile
             /\ gpc = "prune" => ENABLED GathererPrune)
    /\ [][/\ (gpc # "returned" /\ gpc' = "returned") =>
                (gpc = "select" /\ changed(shutdown, seen["gatherer"]))
          /\ (gpc = "get" /\ gpc' # "get") =>
                /\ gpc' = "prune"
                /\ \E response \in SystemResponses(today) :
                      \E fail \in 0 .. Cardinality(store) + Len(response.data) + 1 :
                         LET r == Gather(store, today, response, fail)
                         IN  /\ store' = r.store
                             /\ calls' = r.calls
                             /\ ct_to_db_res' = r.res
          /\ (gpc = "prune" /\ gpc' # "prune") =>
                /\ gpc' = "select"
                /\ \/ /\ db_prune_res'.state = "Ok"
                      /\ store' = prune_old_bookings(store, today).store
                   \/ /\ db_prune_res'.state = "Err"
                      /\ store' = store]_vars

C16_Witness ==
    /\ gpc = "select"
    /\ shutdown.value = "Yes"
    /\ seen["gatherer"] # shutdown.version
    /\ ct_to_db_res = "Ok"
    /\ db_prune_res.state = "Ok"
    /\ store # {}

\* C17: the sync loop removes a stored row only because its booking_id is
\* absent from the set fetched in this cycle while the row intersects the
\* cycle's window, or (prune) because its end_time is strictly before the
\* start of the current day; it changes a row only to a fetched booking of
\* the same id that differs from it; every other row stays as it is.
C17_RowsRemovedForTwoReasons ==
    [][/\ (gpc = "get" /\ gpc' # "get") =>
            \A r \in store :
               \/ r \in store'
               \/ /\ ~HasRow(store', r.booking_id)
                  /\ ct_to_db_res' \notin FetchErrors
                  /\ r.booking_id \notin IdsOf(bookings_from_ct')
                  /\ r.start_time <= FormatTime(WindowEnd(today))
                  /\ FormatTime(WindowStart(today)) <= r.end_time
               \/ \E b \in Range(bookings_from_ct') :
                     /\ b.booking_id = r.booking_id
                     /\ b # interpret_as_utc(r)
                     /\ RowOf(b) \in store'
       /\ (gpc = "prune" /\ gpc' # "prune") =>
            /\ store' \subseteq store
            /\ \A r \in store \ store' : AndUtc(r.end_time) < Midnight(today)
       /\ (gpc \notin {"get", "prune"}) => store' = store]_vars

C17_Witness ==
    /\ CycleDone
    /\ ct_to_db_res = "Ok"
    /\ Len(calls) = 1
    /\ calls[1].op = "delete" /\ calls[1].row_existed
    /\ \E r \in store : interpret_as_utc(r) \in Range(bookings_from_ct)

\* the one call made on the table, if `op` was called
Called(op) == calls # <<>> /\ calls[1].op = op

\* C18: prune deletes exactly the stored bookings whose end_time is strictly
\* before today's 00:00:00 UTC, leaves every other row as it is and returns
\* the number of rows removed; a booking ending exactly at today's midnight
\* is kept, one ending a second earlier is removed.
C18_PruneIsExact ==
    (Called("prune") /\ calls[1].ok) =>
        LET before == calls[1].before
        IN  /\ store = {r \in before : AndUtc(r.end_time) >= Midnight(today)}
            /\ db_prune_res.state = "Ok"
            /\ db_prune_res.rows = Cardinality(before) - Cardinality(store)
            /\ \A r \in before :
                  /\ r.end_time = MidnightSec(today) => r \in store
                  /\ r.end_time = MidnightSec(today) - 1 => r \notin store

C18_Witness ==
    /\ Called("prune") /\ calls[1].ok
    /\ db_prune_res.rows = 1
    /\ \E r \in calls[1].before : r.end_time = MidnightSec(today) /\ r \in store
    /\ \E r \in calls[1].before : r.end_time = MidnightSec(today) - 1 /\ r \notin store

\* C19: query(start, end) returns exactly the stored bookings with
\* stored.start <= end and start <= stored.end, bounds inclusive, each once.
C19_QueryIsExactIntersection ==
    (Called("select") /\ calls[1].ok) =>
        LET hit == {r \in store : /\ AndUtc(r.start_time) <= calls[1].end
                                  /\ calls[1].start <= AndUtc(r.end_time)}
        IN  /\ Range(bookings_from_db) = {interpret_as_utc(r) : r \in hit}
            /\ Len(bookings_from_db) = Cardinality(hit)

\* C20: update(Booking) for a booking_id that has no row fails (not found)
\* and leaves the store unchanged; it does not report success.
C20_UpdateOfAbsentIdFails ==
    (Called("update") /\ ~calls[1].row_existed) =>
        /\ ~calls[1].ok
        /\ store = calls[1].before

\* C21: update(Booking) on a booking_id that has a row replaces title,
\* resource_id, start_time and end_time of that row with the given values
\* (the times as the store writes them), changes no other row and leaves
\* the number of rows as it was.
C21_UpdateReplacesTheRow ==
    (Called("update") /\ calls[1].row_existed /\ calls[1].ok) =>
        LET before == calls[1].before
            b      == calls[1].booking
        IN  /\ \E r \in store :
                  /\ r.booking_id = b.booking_id
                  /\ r.title = b.title
                  /\ r.resource_id = b.resource_id
                  /\ r.start_time = FormatTime(b.start_time)
                  /\ r.end_time = FormatTime(b.end_time)
            /\ {r \in store : r.booking_id # b.booking_id}
                  = {r \in before : r.booking_id # b.booking_id}
            /\ Cardinality(store) = Cardinality(before)
            /\ Cardinality({r \in store : r.booking_id = b.booking_id}) = 1

C21_Witness ==
    /\ Called("update") /\ calls[1].row_existed /\ calls[1].ok
    /\ Cardinality(store) = 2
    /\ \E r \in calls[1].before :
          /\ r.booking_id = calls[1].id
          /\ r.title # calls[1].booking.title
          /\ r.resource_id # calls[1].booking.resource_id
          /\ r.start_time # FormatTime(calls[1].booking.start_time)
          /\ r.end_time # FormatTime(calls[1].booking.end_time)

\* C22: insert(Booking) with a booking_id that has a row fails and leaves
\* the store unchanged, the existing row keeping its fields; insert with a
\* fresh booking_id adds exactly that row.
C22_InsertConflictsOnExistingKey ==
    Called("insert") =>
        LET before == calls[1].before
            b      == calls[1].booking
        IN  /\ calls[1].row_existed => (~calls[1].ok /\ store = before)
            /\ (~calls[1].row_existed /\ calls[1].ok) =>
                  /\ store = before \cup {RowOf(b)}
                  /\ Cardinality(store) = Cardinality(before) + 1
            /\ ~calls[1].ok => store = before

C22_Witness ==
    /\ Called("insert") /\ calls[1].row_existed /\ ~calls[1].ok
    /\ \E r \in store : r.booking_id = calls[1].id /\ r # RowOf(calls[1].booking)

\* C23: delete(booking_id) removes the row of that key if there is one and
\* changes no other row; deleting a key that has no row succeeds and leaves
\* the store unchanged, so a second delete of the same key changes nothing.
C23_DeleteIsIdempotent ==
    /\ \A id \in Ids :
          ~HasRow(store, id) => delete_booking(store, id) = [ok |-> TRUE, store |-> store]
    /\ (Called("delete") /\ calls[1].ok) =>
          /\ calls[1].row_existed <=> HasRow(calls[1].before, calls[1].id)
          /\ Len(calls) = 1 =>
                store = {r \in calls[1].before : r.booking_id # calls[1].id}
          /\ (Len(calls) = 2 /\ calls[2].ok) =>
                /\ ~calls[2].row_existed
                /\ calls[2].before = {r \in calls[1].before : r.booking_id # calls[1].id}
                /\ store = calls[2].before

C23_Witness ==
    /\ Called("delete")
    /\ Len(calls) = 2
    /\ calls[1].ok /\ calls[1].row_existed
    /\ calls[2].ok
    /\ store # {}

\* an instant at whole-second precision
WholeSecond(t) == t % SubSec = 0

\* C24: storage round trip.  A booking whose start_time and end_time are
\* instants at whole-second precision, inserted or updated and read back
\* through the query, comes back equal to the one written, once.
C24_StorageRoundTrip ==
    /\ \A b \in StoreBookings :
          (WholeSecond(b.start_time) /\ WholeSecond(b.end_time)) =>
              interpret_as_utc(RowOf(b)) = b
    /\ (/\ Len(calls) = 2 /\ calls[2].op = "select" /\ calls[2].ok
        /\ calls[1].op = "insert" \/ calls[1].row_existed
        /\ WholeSecond(calls[1].booking.start_time)
        /\ WholeSecond(calls[1].booking.end_time)) =>
          /\ calls[1].booking \in Range(bookings_from_db)
          /\ \A i, j \in 1 .. Len(bookings_from_db) :
                bookings_from_db[i].booking_id = bookings_from_db[j].booking_id => i = j

C24_Witness ==
    /\ Len(calls) = 2 /\ calls[2].op = "select" /\ calls[2].ok
    /\ calls[1].op = "update" /\ calls[1].row_existed
    /\ calls[1].booking.title = "u"
    /\ WholeSecond(calls[1].booking.end_time)
    /\ calls[1].booking \in Range(bookings_from_db)
    /\ Len(bookings_from_db) = 2

\* C25: when the Store query fails during a read request (landing page or
\* calendar export), the answer is the internal-server-error page carrying
\* an error id and nothing else - no detail of the Store's error, no event -
\* and the request neither triggers shutdown nor alters the store.
C25_QueryFailureGivesGenericError ==
    /\ [](~last_response.query_ok =>
             /\ last_response.status = 500
             /\ last_response.template = "500.html"
             /\ last_response.data \subseteq Uuids
             /\ Cardinality(last_response.data) = 1
             /\ last_response.events = <<>>)
    /\ [][last_response' # last_response =>
             /\ shutdown' = shutdown
             /\ store' = store
             /\ <<mpc, gpc, spc, wpc>>' = <<mpc, gpc, spc, wpc>>]_vars

C25_Witness ==
    /\ last_response.handler = "all_rooms_ics"
    /\ ~last_response.query_ok
    /\ last_response.status = 500
    /\ store # {}

\* C26: once cancellation has been signalled, the sync loop starts no new
\* cycle after the one in flight: at its wait point, with the change of the
\* flag unseen, it does not go on to another fetch, also when the timer's
\* tick is ready at the same moment.
C26_NoNewCycleAfterCancel ==
    [][(gpc = "select" /\ changed(shutdown, seen["gatherer"])) => gpc' # "get"]_vars

\* the row lies on one of the days first .. last
OnDays(r, first, last) ==
    r.start_time < MidnightSec(last + 1) /\ MidnightSec(first) <= r.end_time

\* C27: in each cycle the local query covers the calendar days of the remote
\* fetch, from = the current UTC date and to = that date plus one day: it
\* finds exactly the stored bookings that lie on these days, none beyond
\* 23:59:59 of the to-date, and every row the cycle deletes lies on them.
C27_QueryCoversFetchedDays ==
    [][(gpc = "get" /\ gpc' # "get" /\ ct_to_db_res' \notin FetchErrors \cup {"SelectBookings"}) =>
          /\ start' = today
          /\ WindowStart(today) = Midnight(today)
          /\ FormatTime(WindowEnd(today)) = MidnightSec(EndDate(today) + 1) - 1
          /\ Range(bookings_from_db')
                = {interpret_as_utc(r) : r \in {x \in store : OnDays(x, today, EndDate(today))}}
          /\ \A i \in 1 .. Len(calls') :
                (calls'[i].op = "delete" /\ calls'[i].row_existed) =>
                   \E r \in store : /\ r.booking_id = calls'[i].id
                                     /\ OnDays(r, today, EndDate(today))]_vars

C27_Witness ==
    /\ CycleDone
    /\ ct_to_db_res = "Ok"
    /\ \E i \in 1 .. Len(calls) : calls[i].op = "delete" /\ calls[i].row_existed
    /\ \E b \in Range(bookings_from_db) :
          /\ b.start_time >= Midnight(EndDate(start))
          /\ b.booking_id \notin IdsOf(bookings_from_ct)
    /\ bookings_from_ct # <<>>

\* C28: no long-running task returns while the flag is still No.  In every
\* state in which the sync loop, the signal handler or the web server has
\* returned, the flag is Yes; and each return is by a trigger of the task
\* itself or on a change it observed.
C28_NoReturnWhileRunning ==
    /\ []((gpc = "returned" \/ spc = "returned" \/ wpc = "returned") => shutdown.value = "Yes")
    /\ [][/\ (gpc # "returned" /\ gpc' = "returned") => changed(shutdown, seen["gatherer"])
          /\ (spc # "returned" /\ spc' = "returned") =>
                (shutdown'.version # shutdown.version \/ changed(shutdown, seen["signal"]))
          /\ (wpc # "returned" /\ wpc' = "returned") =>
                (shutdown'.version # shutdown.version \/ changed(shutdown, seen["web"]))]_vars

C28_Witness ==
    /\ wpc = "returned"
    /\ shutdown = [value |-> "Yes", version |-> 1]
    /\ seen["web"] = 0
    /\ spc = "select"
    /\ gpc \in {"get", "prune", "select"}

\* C29: the sync loop looks for cancellation only after a cycle.  Its first
\* step after the spawn starts a cycle, with no wait and whatever the flag;
\* it has completed a fetch/reconcile step and a prune step whenever it has
\* returned, also when shutdown was triggered before it first ran.
C29_FirstCycleAlwaysRuns ==
    /\ [](gpc = "tick0" => (ENABLED GathererFirstTick /\ ~ENABLED GathererCancelled))
    /\ [](gpc \in {"get", "prune"} => ~ENABLED GathererCancelled)
    /\ [](gpc = "returned" =>
             (ct_to_db_res # "none" /\ db_prune_res.state \in {"Ok", "Err"}))
    /\ [][(gpc = "tick0" /\ gpc' # "tick0") => gpc' = "get"]_vars

C29_Witness ==
    /\ gpc = "returned"
    /\ mpc = "create_web"
    /\ spc = "returned"
    /\ ct_to_db_res = "Ok"
    /\ db_prune_res.state = "Ok"
    /\ store # {}

\* the calls the cycle at hand set out to make, from the two lists it compared
CyclePlan == Plan(bookings_from_ct, bookings_from_db)

\* C30: the first Store call that fails ends the reconcile step of its cycle.
\* The calls issued are the planned ones up to and including the failed one
\* and nothing after it, so a failed insert is followed by no further insert,
\* no delete and no update, and a failed delete by no further delete and no
\* update; the cycle's error names the failed call.  A failed local query
\* issues no call and leaves the store as it was.
C30_FirstFailureEndsReconcile ==
    /\ [](gpc = "prune" /\ ct_to_db_res \in WriteErrors =>
             /\ Len(calls) \in 1 .. Len(CyclePlan)
             /\ \A i \in 1 .. Len(calls) :
                    /\ calls[i].op = CyclePlan[i].op
                    /\ calls[i].id = CyclePlan[i].id
                    /\ calls[i].booking = CyclePlan[i].booking
                    /\ calls[i].ok <=> i < Len(calls)
             /\ ct_to_db_res = DBErrorOf(calls[Len(calls)].op)
             /\ ct_to_db_res = "InsertBooking" =>
                    \A i \in 1 .. Len(calls) : calls[i].op = "insert"
             /\ ct_to_db_res = "DeleteBooking" =>
                    \A i \in 1 .. Len(calls) : calls[i].op # "update")
    /\ [](gpc = "prune" /\ ct_to_db_res = "SelectBookings" => calls = <<>>)
    /\ [][(gpc = "get" /\ gpc' # "get" /\ ct_to_db_res' = "SelectBookings") =>
             store' = store]_vars

\* a failed first insert with another insert and a delete still planned
C30_Witness ==
    /\ gpc = "prune"
    /\ ct_to_db_res = "InsertBooking"
    /\ Len(calls) = 1
    /\ Len(CyclePlan) = 3
    /\ CyclePlan[2].op = "insert"
    /\ CyclePlan[3].op = "delete"
    /\ HasRow(store, CyclePlan[3].id)

\* the bookings the query of the request answered last returned
Returned == get_bookings_in_timeframe(store, last_response.now,
                                      last_response.now + Lookahead)

\* the bookings among `bookings` whose resource is no configured room
Roomless(bookings) ==
    {i \in 1 .. Len(bookings) : bookings[i].resource_id \notin Rooms}

\* C31: on the read path (landing page and calendar export alike), when a
\* booking returned by the query is on a resource that is no configured
\* room, the answer is the internal-server-error page with an error id and
\* no event at all, the bookings that do have a room included; the answer
\* is a normal view exactly when every returned booking has a room, and
\* then it shows one event per returned booking.
C31_UnknownRoomFailsTheRequest ==
    (last_response.handler # "none" /\ last_response.query_ok) =>
        /\ Roomless(Returned) # {} =>
               /\ last_response.status = 500
               /\ last_response.template = "500.html"
               /\ last_response.data \subseteq Uuids
               /\ Cardinality(last_response.data) = 1
               /\ last_response.events = <<>>
        /\ Roomless(Returned) = {} =>
               /\ last_response.status = 200
               /\ last_response.template =
                      (IF last_response.handler = "root"
                       THEN "landing.html" ELSE "text/calendar")
               /\ Len(last_response.events) = Len(Returned)
               /\ \A i \in 1 .. Len(Returned) :
                      /\ last_response.events[i].name = Returned[i].title
                      /\ last_response.events[i].start_time = Returned[i].start_time
                      /\ last_response.events[i].end_time = Returned[i].end_time
                      /\ last_response.events[i].room = Returned[i].resource_id

\* a landing page request whose query returned one booking with a room and
\* one without
C31_Witness ==
    /\ last_response.handler = "root"
    /\ last_response.query_ok
    /\ last_response.status = 500
    /\ Len(Returned) = 2
    /\ Cardinality(Roomless(Returned)) = 1

====
